---- MODULE Spec2Model ----
(***************************************************************************)
(* HweHweMe: the authorization and sharing behaviour of the backend.       *)
(*                                                                         *)
(* The store is the set of tables of models.py.  There is one action per   *)
(* request handler of main.py and of routes/*.py; each handler is one      *)
(* atomic step (one request, run to completion against the store).  The    *)
(* two inserting handlers whose races matter (add_device_to_group,         *)
(* share_device) also have a two-step form, begin_* (the handler's reads   *)
(* and checks) and commit_* (db.add and db.commit, atomic in the store),   *)
(* that lets requests interleave.                                          *)
(*                                                                         *)
(* Reading conventions, made necessary by the two schema variants that     *)
(* the source mixes:                                                       *)
(*  - a handler's call of a crud function is modelled by the body of that  *)
(*    crud function, its arguments bound by role (main.py passes keyword   *)
(*    arguments where crud.py declares schema objects);                    *)
(*  - a column named by a query that the mapped class does not declare     *)
(*    (Device.id, DeviceGroup.id, SharedDevice.id, Device.owner_id) is the *)
(*    class's column of that role (device_id, group_id, share_id,          *)
(*    user_id); routes/*.py's Group and GroupDevice are DeviceGroup and    *)
(*    GroupMembership;                                                     *)
(*  - a class that models.py declares is taken as it is: DeviceLocation    *)
(*    (table device_locations) and Location (table locations) are two      *)
(*    tables;                                                              *)
(*  - a response is the handler's own control flow: a return is 200 (or    *)
(*    the status the route declares), an HTTPException its status code, a  *)
(*    store error that no handler catches is 500.                          *)
(***************************************************************************)
EXTENDS Integers, Sequences, FiniteSets, TLC

VARIABLES
    users,               \* table users: rows [user_id, email]
    devices,             \* table devices: rows [device_id, user_id, device_name,
                         \*   last_battery_level, last_location, last_seen]
    publicly_reportable, \* the devices flagged as publicly reportable
    device_locations,    \* table device_locations (class DeviceLocation), in insertion order
    locations,           \* table locations (class Location), in insertion order
    device_groups,       \* table device_groups: rows [group_id, user_id, group_name]
    group_memberships,   \* table group_memberships: rows [membership_id, group_id, device_id]
    shared_devices,      \* table shared_devices
    alerts,              \* table alerts
    pending,             \* the requests that have passed their checks and not yet committed
    now,                 \* the clock (datetime.utcnow / now())
    resp                 \* the last request, its response and the time it was served at

vars == <<users, devices, publicly_reportable, device_locations, locations,
          device_groups, group_memberships, shared_devices, alerts, pending, now, resp>>

store == <<users, devices, publicly_reportable, device_locations, locations,
           device_groups, group_memberships, shared_devices, alerts>>

-----------------------------------------------------------------------------
(* Bounds of the model *)

MaxTime == 2
MaxLocations == 2
MaxGroups == 1
MaxMemberships == 2
MaxShares == 2
MaxAlerts == 2
MaxPending == 2

(* Request inputs *)

Emails == {"a@x", "b@x"}
DeviceIds == {"d1", "d2"}
ObservedDevices == {"d1"}
GroupNames == {"g", "h"}
Positions == {"p", "q"}
PermissionLevels == {"view", "locate", "full"}
ExpiryInputs == {{}, {MaxTime - 1}}
AlertTypes == {"proximity"}

-----------------------------------------------------------------------------
(* Responses *)

NoRequest == [op |-> "none", user |-> 0, args |-> <<>>, status |-> 0,
              detail |-> "", body |-> {}, at |-> 0]

Response(op, user, args, status, detail, body) ==
    [op |-> op, user |-> user, args |-> args, status |-> status,
     detail |-> detail, body |-> body, at |-> now]

HTTPException(op, user, args, status, detail) ==
    Response(op, user, args, status, detail, {})

-----------------------------------------------------------------------------
(* crud.py: lookups *)

\* an autoincrement primary key: the id the store gives a new row of a table
\* that holds the ids `used`
NewId(used) == IF used = {} THEN 1 ELSE 1 + CHOOSE i \in used : \A j \in used : j <= i

get_user(user_id) == {u \in users : u.user_id = user_id}

get_user_by_email(email) == {u \in users : u.email = email}

get_device(device_id) == {d \in devices : d.device_id = device_id}

get_device_group(group_id) == {g \in device_groups : g.group_id = group_id}

get_device_share(share_id) == {s \in shared_devices : s.share_id = share_id}

check_device_shared_with_user(device_id, user_id) ==
    {s \in shared_devices : s.device_id = device_id /\ s.shared_with_id = user_id}

is_device_shared_publicly(device_id) == device_id \in publicly_reportable

RowsOf(table, device_id) ==
    {table[i] : i \in {j \in DOMAIN table : table[j].device_id = device_id}}

\* order_by(timestamp.desc()).first(): the rows the store may return first
LatestOf(rows) == {r \in rows : \A o \in rows : o.timestamp <= r.timestamp}

get_device_locations(device_id) == RowsOf(locations, device_id)

get_device_latest_location(device_id) == LatestOf(RowsOf(locations, device_id))

\* get_current_user: the requests of the model carry a valid token of a user
Authenticated == {u.user_id : u \in users}

-----------------------------------------------------------------------------
Init ==
    /\ users = {}
    /\ devices = {}
    /\ publicly_reportable = {}
    /\ device_locations = <<>>
    /\ locations = <<>>
    /\ device_groups = {}
    /\ group_memberships = {}
    /\ shared_devices = {}
    /\ alerts = {}
    /\ pending = {}
    /\ now = 0
    /\ resp = NoRequest

\* the clock advances between requests
Tick ==
    /\ now < MaxTime
    /\ now' = now + 1
    /\ UNCHANGED <<store, pending, resp>>

-----------------------------------------------------------------------------
(* main.py: users and devices *)

create_user(email) ==
    /\ IF get_user_by_email(email) # {}
       THEN /\ resp' = HTTPException("create_user", 0, <<email>>, 400, "Email already registered")
            /\ UNCHANGED users
       ELSE /\ users' = users \cup {[user_id |-> Cardinality(users) + 1, email |-> email]}
            /\ resp' = Response("create_user", 0, <<email>>, 200, "", {})
    /\ UNCHANGED <<devices, publicly_reportable, device_locations, locations,
                   device_groups, group_memberships, shared_devices, alerts, pending, now>>

\* routes/auth.py: the same lookup and insert as create_user
register(email) ==
    /\ IF get_user_by_email(email) # {}
       THEN /\ resp' = HTTPException("register", 0, <<email>>, 400, "Email already registered")
            /\ UNCHANGED users
       ELSE /\ users' = users \cup {[user_id |-> Cardinality(users) + 1, email |-> email]}
            /\ resp' = Response("register", 0, <<email>>, 200, "", {})
    /\ UNCHANGED <<devices, publicly_reportable, device_locations, locations,
                   device_groups, group_memberships, shared_devices, alerts, pending, now>>

create_device(user, device_id) ==
    /\ user \in Authenticated
    /\ IF get_device(device_id) # {}
       THEN \* devices.device_id is the primary key: the insert fails
            /\ resp' = HTTPException("create_device", user, <<device_id>>, 500, "IntegrityError")
            /\ UNCHANGED devices
       ELSE /\ devices' = devices \cup {[device_id |-> device_id, user_id |-> user,
                                         device_name |-> "n", last_battery_level |-> {},
                                         last_location |-> {}, last_seen |-> {}]}
            /\ resp' = Response("create_device", user, <<device_id>>, 200, "", {})
    /\ UNCHANGED <<users, publicly_reportable, device_locations, locations,
                   device_groups, group_memberships, shared_devices, alerts, pending, now>>

\* (mutant) the handler serving the holders of a share as well as the owner
read_device_for_shared(user, device_id) ==
    /\ user \in Authenticated
    /\ IF ~\E d \in get_device(device_id) :
               d.user_id = user \/ check_device_shared_with_user(device_id, user) # {}
       THEN resp' = HTTPException("read_device", user, <<device_id>>, 404, "Device not found")
       ELSE resp' = Response("read_device", user, <<device_id>>, 200, "", get_device(device_id))
    /\ UNCHANGED <<store, pending, now>>

read_device(user, device_id) ==
    /\ user \in Authenticated
    /\ IF ~\E d \in get_device(device_id) : d.user_id = user
       THEN resp' = HTTPException("read_device", user, <<device_id>>, 404, "Device not found")
       ELSE resp' = Response("read_device", user, <<device_id>>, 200, "", get_device(device_id))
    /\ UNCHANGED <<store, pending, now>>

\* crud.py defines no delete_device: for the owner the call raises
\* AttributeError, which nothing catches, and no row is deleted
delete_device(user, device_id) ==
    /\ user \in Authenticated
    /\ IF ~\E d \in get_device(device_id) : d.user_id = user
       THEN resp' = HTTPException("delete_device", user, <<device_id>>, 404, "Device not found")
       ELSE resp' = HTTPException("delete_device", user, <<device_id>>, 500, "AttributeError")
    /\ UNCHANGED <<store, pending, now>>

\* (mutant) the schema with the owner among its fields
DeviceUpdateFields_with_owner == {"device_name", "last_battery_level", "user_id"}

\* schemas.DeviceUpdate: the fields the update request is parsed into; a field
\* of the request body that the schema does not declare is dropped
DeviceUpdateFields == {"device_name", "last_battery_level"}

\* the bodies a client sends: each field absent ({}) or given a value
DeviceUpdateBodies ==
    {[device_name |-> a, last_battery_level |-> b, user_id |-> c] :
        a \in {{}, {"m"}}, b \in {{}, {50}}, c \in {{}} \cup {{u} : u \in 1..Cardinality(Emails)}}

\* device_update.dict(exclude_unset=True): the fields of the schema the body sets
Unset(body, key) == key \notin DeviceUpdateFields \/ body[key] = {}

\* for key, value in ...items(): setattr(db_device, key, value)
crud_update_device(device_id, body) ==
    {IF d.device_id = device_id
     THEN [d EXCEPT !.device_name = IF Unset(body, "device_name") THEN @
                                     ELSE CHOOSE v \in body.device_name : TRUE,
                    !.last_battery_level = IF Unset(body, "last_battery_level") THEN @
                                            ELSE body.last_battery_level,
                    !.user_id = IF Unset(body, "user_id") THEN @
                                 ELSE CHOOSE v \in body.user_id : TRUE]
     ELSE d : d \in devices}

update_device(user, device_id, body) ==
    /\ user \in Authenticated
    /\ IF ~\E d \in get_device(device_id) : d.user_id = user
       THEN /\ resp' = HTTPException("update_device", user, <<device_id>>, 404, "Device not found")
            /\ UNCHANGED devices
       ELSE /\ devices' = crud_update_device(device_id, body)
            /\ resp' = Response("update_device", user, <<device_id>>, 200, "", {})
    /\ UNCHANGED <<users, publicly_reportable, device_locations, locations,
                   device_groups, group_memberships, shared_devices, alerts, pending, now>>

\* the device-level setting the device lookup exposes; its owner sets it
set_publicly_reportable(user, device_id, flag) ==
    /\ user \in Authenticated
    /\ \E d \in get_device(device_id) : d.user_id = user
    /\ publicly_reportable' = IF flag THEN publicly_reportable \cup {device_id}
                                      ELSE publicly_reportable \ {device_id}
    /\ resp' = Response("set_publicly_reportable", user, <<device_id>>, 200, "", {})
    /\ UNCHANGED <<users, devices, device_locations, locations,
                   device_groups, group_memberships, shared_devices, alerts, pending, now>>

-----------------------------------------------------------------------------
(* main.py: the access decision of the location reads.  Any share row of   *)
(* the (device, user) pair passes the test "if not shared_access"; neither *)
(* its permission_level nor its expires_at is read, so the decision is the *)
(* same at every required level.                                           *)

authorize_device_access(user, device, required_level) ==
    IF device.user_id # user
    THEN IF check_device_shared_with_user(device.device_id, user) = {}
         THEN "Denied"
         ELSE "Allowed"
    ELSE "Allowed"

(* main.py: locations *)

crud_create_device_location(device_id, pos) ==
    Append(device_locations,
           [location_id |-> Len(device_locations) + 1, device_id |-> device_id,
            pos |-> pos, timestamp |-> now])

\* (mutant) the handler without its test of the requester
create_location_unchecked(user, device_id, pos) ==
    /\ user \in Authenticated
    /\ Len(device_locations) + Len(locations) < MaxLocations
    /\ IF get_device(device_id) = {}
       THEN /\ resp' = HTTPException("create_location", user, <<device_id>>, 404, "Device not found")
            /\ UNCHANGED device_locations
       ELSE /\ device_locations' = crud_create_device_location(device_id, pos)
            /\ resp' = Response("create_location", user, <<device_id>>, 200, "",
                                {device_locations'[Len(device_locations')]})
    /\ UNCHANGED <<users, devices, publicly_reportable, locations,
                   device_groups, group_memberships, shared_devices, alerts, pending, now>>

create_location(user, device_id, pos) ==
    /\ user \in Authenticated
    /\ Len(device_locations) + Len(locations) < MaxLocations
    /\ LET device == get_device(device_id)
           op(status, detail) == HTTPException("create_location", user, <<device_id>>, status, detail)
       IN  IF device = {}
           THEN /\ resp' = op(404, "Device not found")
                /\ UNCHANGED device_locations
           ELSE IF (\E d \in device : d.user_id # user) /\ ~is_device_shared_publicly(device_id)
           THEN /\ resp' = op(403, "Not authorized to update this device's location")
                /\ UNCHANGED device_locations
           ELSE /\ device_locations' = crud_create_device_location(device_id, pos)
                /\ resp' = Response("create_location", user, <<device_id>>, 200, "",
                                    {device_locations'[Len(device_locations')]})
    /\ UNCHANGED <<users, devices, publicly_reportable, locations,
                   device_groups, group_memberships, shared_devices, alerts, pending, now>>

read_device_locations(user, device_id) ==
    /\ user \in Authenticated
    /\ LET device == get_device(device_id)
           op(status, detail) == HTTPException("read_device_locations", user, <<device_id>>, status, detail)
       IN  IF device = {}
           THEN resp' = op(404, "Device not found")
           ELSE IF \E d \in device : authorize_device_access(user, d, "view") = "Denied"
           THEN resp' = op(403, "Not authorized to view this device's location")
           ELSE resp' = Response("read_device_locations", user, <<device_id>>, 200, "",
                                 get_device_locations(device_id))
    /\ UNCHANGED <<store, pending, now>>

read_device_latest_location(user, device_id) ==
    /\ user \in Authenticated
    /\ LET device == get_device(device_id)
           op(status, detail) == HTTPException("read_device_latest_location", user, <<device_id>>, status, detail)
       IN  IF device = {}
           THEN resp' = op(404, "Device not found")
           ELSE IF \E d \in device : authorize_device_access(user, d, "view") = "Denied"
           THEN resp' = op(403, "Not authorized to view this device's location")
           ELSE IF get_device_latest_location(device_id) = {}
           THEN resp' = op(404, "No location data available for this device")
           ELSE \E location \in get_device_latest_location(device_id) :
                    resp' = Response("read_device_latest_location", user, <<device_id>>, 200, "",
                                     {location})
    /\ UNCHANGED <<store, pending, now>>

(* routes/locations.py *)

crud_create_location(device_id, pos) ==
    Append(locations,
           [id |-> Len(locations) + 1, device_id |-> device_id, pos |-> pos,
            timestamp |-> now])

routes_create_location_endpoint(user, device_id, pos) ==
    /\ user \in Authenticated
    /\ Len(device_locations) + Len(locations) < MaxLocations
    /\ LET device == {d \in get_device(device_id) : d.user_id = user}
       IN  IF device = {}
           THEN /\ resp' = HTTPException("routes_create_location_endpoint", user, <<device_id>>,
                                         404, "Device not found")
                /\ UNCHANGED <<locations, devices>>
           ELSE /\ locations' = crud_create_location(device_id, pos)
                \* Update device's last known location
                /\ devices' = (devices \ device) \cup
                       {[d EXCEPT !.last_location = {pos},
                                  !.last_seen = {locations'[Len(locations')].timestamp}] : d \in device}
                /\ resp' = Response("routes_create_location_endpoint", user, <<device_id>>, 200, "",
                                    {locations'[Len(locations')]})
    /\ UNCHANGED <<users, publicly_reportable, device_locations,
                   device_groups, group_memberships, shared_devices, alerts, pending, now>>

routes_get_device_locations(user, device_id) ==
    /\ user \in Authenticated
    /\ LET device == {d \in get_device(device_id) : d.user_id = user}
       IN  IF device = {}
           THEN resp' = HTTPException("routes_get_device_locations", user, <<device_id>>,
                                      404, "Device not found")
           ELSE resp' = Response("routes_get_device_locations", user, <<device_id>>, 200, "",
                                 RowsOf(locations, device_id))
    /\ UNCHANGED <<store, pending, now>>

routes_get_last_location(user, device_id) ==
    /\ user \in Authenticated
    /\ LET device == {d \in get_device(device_id) : d.user_id = user}
           last_location == LatestOf(RowsOf(locations, device_id))
           op(status, detail) == HTTPException("routes_get_last_location", user, <<device_id>>, status, detail)
       IN  IF device = {}
           THEN resp' = op(404, "Device not found")
           ELSE IF last_location = {}
           THEN resp' = op(404, "No location data found")
           ELSE \E l \in last_location :
                    resp' = Response("routes_get_last_location", user, <<device_id>>, 200, "", {l})
    /\ UNCHANGED <<store, pending, now>>

-----------------------------------------------------------------------------
(* The store's constraints (models.py __table_args__) *)

\* (mutant) the column without its unique index
users_email_uc_absent(rows) == TRUE

\* email = Column(String, unique=True, index=True)
users_email_uc(rows) ==
    \A u1 \in rows, u2 \in rows : u1.email = u2.email => u1 = u2

\* (mutant) the table without its unique constraint
group_device_uc_absent(rows) == TRUE

\* UniqueConstraint('group_id', 'device_id', name='_group_device_uc')
group_device_uc(rows) ==
    \A m1 \in rows, m2 \in rows :
        (m1.group_id = m2.group_id /\ m1.device_id = m2.device_id) => m1 = m2

\* (mutant) the table without its unique constraint
device_shared_user_uc_absent(rows) == TRUE

\* UniqueConstraint('device_id', 'shared_with_id', name='_device_shared_user_uc')
device_shared_user_uc(rows) ==
    \A s1 \in rows, s2 \in rows :
        (s1.device_id = s2.device_id /\ s1.shared_with_id = s2.shared_with_id) => s1 = s2

(* crud.py: groups *)

crud_create_device_group(group_name, user_id) ==
    device_groups \cup {[group_id |-> NewId({g.group_id : g \in device_groups}), user_id |-> user_id,
                         group_name |-> group_name]}

crud_update_device_group(group_id, group_name) ==
    {IF g.group_id = group_id THEN [g EXCEPT !.group_name = group_name] ELSE g :
        g \in device_groups}

crud_delete_device_group(group_id) == {g \in device_groups : g.group_id # group_id}

\* the rows after db.add(GroupMembership(...)); the commit accepts them or not
crud_add_device_to_group(group_id, device_id) ==
    group_memberships \cup {[membership_id |-> NewId({m.membership_id : m \in group_memberships}),
                             group_id |-> group_id, device_id |-> device_id]}

\* the filter names the membership's columns: the rows of the pair are deleted;
\* the function returns nothing (None)
crud_remove_device_from_group(group_id, device_id) ==
    {m \in group_memberships : ~(m.group_id = group_id /\ m.device_id = device_id)}

(* main.py: groups *)

create_group(user, group_name) ==
    /\ user \in Authenticated
    /\ NewId({g.group_id : g \in device_groups}) <= MaxGroups
    /\ device_groups' = crud_create_device_group(group_name, user)
    /\ resp' = Response("create_group", user, <<NewId({g.group_id : g \in device_groups})>>, 200, "", {})
    /\ UNCHANGED <<users, devices, publicly_reportable, device_locations, locations,
                   group_memberships, shared_devices, alerts, pending, now>>

GroupOwnedBy(user, group_id) == \E g \in get_device_group(group_id) : g.user_id = user

read_group(user, group_id) ==
    /\ user \in Authenticated
    /\ IF ~GroupOwnedBy(user, group_id)
       THEN resp' = HTTPException("read_group", user, <<group_id>>, 404, "Group not found")
       ELSE resp' = Response("read_group", user, <<group_id>>, 200, "", get_device_group(group_id))
    /\ UNCHANGED <<store, pending, now>>

\* (mutant) the handler telling a group that is someone else's from a missing one
update_group_revealing(user, group_id, group_name) ==
    /\ user \in Authenticated
    /\ IF get_device_group(group_id) = {}
       THEN /\ resp' = HTTPException("update_group", user, <<group_id>>, 404, "Group not found")
            /\ UNCHANGED device_groups
       ELSE IF ~GroupOwnedBy(user, group_id)
       THEN /\ resp' = HTTPException("update_group", user, <<group_id>>, 403, "Not authorized")
            /\ UNCHANGED device_groups
       ELSE /\ device_groups' = crud_update_device_group(group_id, group_name)
            /\ resp' = Response("update_group", user, <<group_id>>, 200, "", {})
    /\ UNCHANGED <<users, devices, publicly_reportable, device_locations, locations,
                   group_memberships, shared_devices, alerts, pending, now>>

update_group(user, group_id, group_name) ==
    /\ user \in Authenticated
    /\ IF ~GroupOwnedBy(user, group_id)
       THEN /\ resp' = HTTPException("update_group", user, <<group_id>>, 404, "Group not found")
            /\ UNCHANGED device_groups
       ELSE /\ device_groups' = crud_update_device_group(group_id, group_name)
            /\ resp' = Response("update_group", user, <<group_id>>, 200, "", {})
    /\ UNCHANGED <<users, devices, publicly_reportable, device_locations, locations,
                   group_memberships, shared_devices, alerts, pending, now>>

\* Query.delete() is a bulk DELETE: the relationship's cascade does not run.  With
\* membership or alert rows referring to the group, a store that enforces the
\* foreign key refuses the delete, and one that does not leaves the rows behind.
delete_group(user, group_id) ==
    /\ user \in Authenticated
    /\ IF ~GroupOwnedBy(user, group_id)
       THEN /\ resp' = HTTPException("delete_group", user, <<group_id>>, 404, "Group not found")
            /\ UNCHANGED device_groups
       ELSE \/ /\ device_groups' = crud_delete_device_group(group_id)
               /\ resp' = Response("delete_group", user, <<group_id>>, 200, "Group deleted", {})
            \/ /\ \/ \E m \in group_memberships : m.group_id = group_id
                  \/ \E al \in alerts : al.group_id = {group_id}
               /\ resp' = HTTPException("delete_group", user, <<group_id>>, 500, "IntegrityError")
               /\ UNCHANGED device_groups
    /\ UNCHANGED <<users, devices, publicly_reportable, device_locations, locations,
                   group_memberships, shared_devices, alerts, pending, now>>

add_device_to_group(user, group_id, device_id) ==
    /\ user \in Authenticated
    /\ NewId({m.membership_id : m \in group_memberships}) <= MaxMemberships
    /\ LET op(status, detail) ==
               HTTPException("add_device_to_group", user, <<group_id, device_id>>, status, detail)
       IN  IF ~GroupOwnedBy(user, group_id)
           THEN /\ resp' = op(404, "Group not found")
                /\ UNCHANGED group_memberships
           ELSE IF ~\E d \in get_device(device_id) : d.user_id = user
           THEN /\ resp' = op(404, "Device not found or not owned by you")
                /\ UNCHANGED group_memberships
           ELSE IF ~group_device_uc(crud_add_device_to_group(group_id, device_id))
           THEN \* except Exception as e
                /\ resp' = op(400, "IntegrityError")
                /\ UNCHANGED group_memberships
           ELSE /\ group_memberships' = crud_add_device_to_group(group_id, device_id)
                /\ resp' = Response("add_device_to_group", user, <<group_id, device_id>>, 200, "", {})
    /\ UNCHANGED <<users, devices, publicly_reportable, device_locations, locations,
                   device_groups, shared_devices, alerts, pending, now>>

remove_device_from_group(user, group_id, device_id) ==
    /\ user \in Authenticated
    /\ IF ~GroupOwnedBy(user, group_id)
       THEN /\ resp' = HTTPException("remove_device_from_group", user, <<group_id, device_id>>,
                                     404, "Group not found")
            /\ UNCHANGED group_memberships
       ELSE /\ group_memberships' = crud_remove_device_from_group(group_id, device_id)
            \* result is None: "if not result" is taken
            /\ resp' = HTTPException("remove_device_from_group", user, <<group_id, device_id>>,
                                     404, "Device not found in group")
    /\ UNCHANGED <<users, devices, publicly_reportable, device_locations, locations,
                   device_groups, shared_devices, alerts, pending, now>>

(* routes/groups.py *)

routes_update_group(user, group_id, group_name) ==
    /\ user \in Authenticated
    /\ LET db_group == {g \in get_device_group(group_id) : g.user_id = user}
       IN  IF db_group = {}
           THEN /\ resp' = HTTPException("routes_update_group", user, <<group_id>>, 404, "Group not found")
                /\ UNCHANGED device_groups
           ELSE /\ device_groups' = (device_groups \ db_group) \cup
                                    {[g EXCEPT !.group_name = group_name] : g \in db_group}
                /\ resp' = Response("routes_update_group", user, <<group_id>>, 200, "", {})
    /\ UNCHANGED <<users, devices, publicly_reportable, device_locations, locations,
                   group_memberships, shared_devices, alerts, pending, now>>

\* db.delete(db_group): the memberships relationship cascades (all, delete-orphan);
\* the alerts relationship has no cascade, its rows lose their group_id
routes_delete_group(user, group_id) ==
    /\ user \in Authenticated
    /\ LET db_group == {g \in get_device_group(group_id) : g.user_id = user}
       IN  IF db_group = {}
           THEN /\ resp' = HTTPException("routes_delete_group", user, <<group_id>>, 404, "Group not found")
                /\ UNCHANGED <<device_groups, group_memberships, alerts>>
           ELSE /\ device_groups' = device_groups \ db_group
                /\ group_memberships' = {m \in group_memberships : m.group_id # group_id}
                /\ alerts' = {IF al.group_id = {group_id} THEN [al EXCEPT !.group_id = {}] ELSE al :
                                 al \in alerts}
                /\ resp' = Response("routes_delete_group", user, <<group_id>>, 204, "", {})
    /\ UNCHANGED <<users, devices, publicly_reportable, device_locations, locations,
                   shared_devices, pending, now>>

routes_add_device_to_group_endpoint(user, group_id, device_id) ==
    /\ user \in Authenticated
    /\ NewId({m.membership_id : m \in group_memberships}) <= MaxMemberships
    /\ LET group == {g \in get_device_group(group_id) : g.user_id = user}
           device == {d \in get_device(device_id) : d.user_id = user}
           op(status, detail) ==
               HTTPException("routes_add_device_to_group_endpoint", user, <<group_id, device_id>>,
                             status, detail)
       IN  IF group = {} \/ device = {}
           THEN /\ resp' = op(404, "Group or Device not found")
                /\ UNCHANGED group_memberships
           ELSE IF ~group_device_uc(crud_add_device_to_group(group_id, device_id))
           THEN \* nothing catches the store's error
                /\ resp' = op(500, "IntegrityError")
                /\ UNCHANGED group_memberships
           ELSE /\ group_memberships' = crud_add_device_to_group(group_id, device_id)
                /\ resp' = op(201, "Device added to group successfully")
    /\ UNCHANGED <<users, devices, publicly_reportable, device_locations, locations,
                   device_groups, shared_devices, alerts, pending, now>>

\* the membership is looked up by (group_id, device_id) alone
routes_remove_device_from_group(user, group_id, device_id) ==
    /\ user \in Authenticated
    /\ LET group_device == {m \in group_memberships :
                               m.group_id = group_id /\ m.device_id = device_id}
           op(status, detail) ==
               HTTPException("routes_remove_device_from_group", user, <<group_id, device_id>>,
                             status, detail)
       IN  IF group_device = {}
           THEN /\ resp' = op(404, "Device not found in group")
                /\ UNCHANGED group_memberships
           ELSE \E gd \in group_device :
                    /\ group_memberships' = group_memberships \ {gd}
                    /\ resp' = op(204, "")
    /\ UNCHANGED <<users, devices, publicly_reportable, device_locations, locations,
                   device_groups, shared_devices, alerts, pending, now>>

-----------------------------------------------------------------------------
(* Device sharing *)

\* the rows after db.add(SharedDevice(...)); the commit accepts them or not
crud_share_device(device_id, owner_id, shared_with_id, permission_level, expires_at) ==
    shared_devices \cup {[share_id |-> NewId({x.share_id : x \in shared_devices}), device_id |-> device_id,
                          owner_id |-> owner_id, shared_with_id |-> shared_with_id,
                          permission_level |-> permission_level, expires_at |-> expires_at]}

\* (mutant) the delete that removes no row
crud_delete_device_share_keeping(share_id) == shared_devices

crud_delete_device_share(share_id) == {s \in shared_devices : s.share_id # share_id}

\* (mutant) the handler without its test of the device's owner
share_device_unchecked(user, device_id, shared_with_email, permission_level, expires_at) ==
    /\ user \in Authenticated
    /\ NewId({x.share_id : x \in shared_devices}) <= MaxShares
    /\ LET args == <<device_id, shared_with_email, permission_level, expires_at>>
           op(status, detail) == HTTPException("share_device", user, args, status, detail)
           target_user == get_user_by_email(shared_with_email)
       IN  IF get_device(device_id) = {}
           THEN /\ resp' = op(404, "Device not found or not owned by you")
                /\ UNCHANGED shared_devices
           ELSE IF target_user = {}
           THEN /\ resp' = op(404, "Target user not found")
                /\ UNCHANGED shared_devices
           ELSE \E t \in target_user :
                LET rows == crud_share_device(device_id, user, t.user_id,
                                              permission_level, expires_at)
                IN  IF ~device_shared_user_uc(rows)
                    THEN /\ resp' = op(500, "IntegrityError")
                         /\ UNCHANGED shared_devices
                    ELSE /\ shared_devices' = rows
                         /\ resp' = Response("share_device", user, args, 200, "",
                                             rows \ shared_devices)
    /\ UNCHANGED <<users, devices, publicly_reportable, device_locations, locations,
                   device_groups, group_memberships, alerts, pending, now>>

share_device(user, device_id, shared_with_email, permission_level, expires_at) ==
    /\ user \in Authenticated
    /\ NewId({x.share_id : x \in shared_devices}) <= MaxShares
    /\ LET args == <<device_id, shared_with_email, permission_level, expires_at>>
           op(status, detail) == HTTPException("share_device", user, args, status, detail)
           target_user == get_user_by_email(shared_with_email)
       IN  IF ~\E d \in get_device(device_id) : d.user_id = user
           THEN /\ resp' = op(404, "Device not found or not owned by you")
                /\ UNCHANGED shared_devices
           ELSE IF target_user = {}
           THEN /\ resp' = op(404, "Target user not found")
                /\ UNCHANGED shared_devices
           ELSE \E t \in target_user :
                LET rows == crud_share_device(device_id, user, t.user_id,
                                              permission_level, expires_at)
                IN  IF ~device_shared_user_uc(rows)
                    THEN \* the commit raises IntegrityError; nothing catches it
                         /\ resp' = op(500, "IntegrityError")
                         /\ UNCHANGED shared_devices
                    ELSE /\ shared_devices' = rows
                         /\ resp' = Response("share_device", user, args, 200, "",
                                             rows \ shared_devices)
    /\ UNCHANGED <<users, devices, publicly_reportable, device_locations, locations,
                   device_groups, group_memberships, alerts, pending, now>>

\* (mutant) the handler accepting the share's recipient as well as its owner
remove_device_sharing_by_participant(user, share_id) ==
    /\ user \in Authenticated
    /\ IF ~\E s \in get_device_share(share_id) : s.owner_id = user \/ s.shared_with_id = user
       THEN /\ resp' = HTTPException("remove_device_sharing", user, <<share_id>>, 404,
                                     "Share not found or not owned by you")
            /\ UNCHANGED shared_devices
       ELSE /\ shared_devices' = crud_delete_device_share(share_id)
            /\ resp' = Response("remove_device_sharing", user, <<share_id>>, 200,
                                "Device sharing removed", {})
    /\ UNCHANGED <<users, devices, publicly_reportable, device_locations, locations,
                   device_groups, group_memberships, alerts, pending, now>>

remove_device_sharing(user, share_id) ==
    /\ user \in Authenticated
    /\ IF ~\E s \in get_device_share(share_id) : s.owner_id = user
       THEN /\ resp' = HTTPException("remove_device_sharing", user, <<share_id>>, 404,
                                     "Share not found or not owned by you")
            /\ UNCHANGED shared_devices
       ELSE /\ shared_devices' = crud_delete_device_share(share_id)
            /\ resp' = Response("remove_device_sharing", user, <<share_id>>, 200,
                                "Device sharing removed", {})
    /\ UNCHANGED <<users, devices, publicly_reportable, device_locations, locations,
                   device_groups, group_memberships, alerts, pending, now>>

-----------------------------------------------------------------------------
(* Alerts *)

get_alert(alert_id) == {a \in alerts : a.alert_id = alert_id}

\* Alert(**alert.dict(), created_at=datetime.utcnow())
crud_create_alert(device_id, group_id, alert_type) ==
    alerts \cup {[alert_id |-> NewId({a.alert_id : a \in alerts}), device_id |-> device_id,
                  group_id |-> group_id, alert_type |-> alert_type, is_resolved |-> FALSE,
                  created_at |-> now, resolved_at |-> {}]}

\* update({"resolved": True}): the resolved state is set, resolved_at is not
\* among the values; the function returns nothing
crud_resolve_alert(alert_id) ==
    {IF a.alert_id = alert_id THEN [a EXCEPT !.is_resolved = TRUE] ELSE a : a \in alerts}

\* group_id is optional and the handler does not look the group up: with a
\* group_id that names no group, a store that enforces the foreign key refuses
\* the insert and one that does not accepts it
create_alert(user, device_id, group_id, alert_type) ==
    /\ user \in Authenticated
    /\ NewId({a.alert_id : a \in alerts}) <= MaxAlerts
    /\ LET args == <<device_id, group_id, alert_type>>
           op(status, detail) == HTTPException("create_alert", user, args, status, detail)
           device == get_device(device_id)
       IN  IF device = {}
           THEN /\ resp' = op(404, "Device not found")
                /\ UNCHANGED alerts
           ELSE IF \E d \in device : d.user_id # user
           THEN /\ resp' = op(403, "Not authorized to create alerts for this device")
                /\ UNCHANGED alerts
           ELSE \/ /\ alerts' = crud_create_alert(device_id, group_id, alert_type)
                   /\ resp' = Response("create_alert", user, args, 200, "", alerts' \ alerts)
                \/ /\ \E g \in group_id : get_device_group(g) = {}
                   /\ resp' = op(500, "IntegrityError")
                   /\ UNCHANGED alerts
    /\ UNCHANGED <<users, devices, publicly_reportable, device_locations, locations,
                   device_groups, group_memberships, shared_devices, pending, now>>

\* (mutant) the handler accepting the owner of the alert's group as well
resolve_alert_by_group_owner(user, alert_id) ==
    /\ user \in Authenticated
    /\ LET op(status, detail) == HTTPException("resolve_alert", user, <<alert_id>>, status, detail)
           alert == get_alert(alert_id)
       IN  IF alert = {}
           THEN /\ resp' = op(404, "Alert not found")
                /\ UNCHANGED alerts
           ELSE IF \E a \in alert :
                     /\ ~\E d \in get_device(a.device_id) : d.user_id = user
                     /\ ~\E g \in a.group_id : GroupOwnedBy(user, g)
           THEN /\ resp' = op(403, "Not authorized to resolve this alert")
                /\ UNCHANGED alerts
           ELSE /\ alerts' = crud_resolve_alert(alert_id)
                /\ resp' = Response("resolve_alert", user, <<alert_id>>, 200, "", {})
    /\ UNCHANGED <<users, devices, publicly_reportable, device_locations, locations,
                   device_groups, group_memberships, shared_devices, pending, now>>

resolve_alert(user, alert_id) ==
    /\ user \in Authenticated
    /\ LET op(status, detail) == HTTPException("resolve_alert", user, <<alert_id>>, status, detail)
           alert == get_alert(alert_id)
       IN  IF alert = {}
           THEN /\ resp' = op(404, "Alert not found")
                /\ UNCHANGED alerts
           ELSE IF \E a \in alert : ~\E d \in get_device(a.device_id) : d.user_id = user
           THEN /\ resp' = op(403, "Not authorized to resolve this alert")
                /\ UNCHANGED alerts
           ELSE /\ alerts' = crud_resolve_alert(alert_id)
                /\ resp' = Response("resolve_alert", user, <<alert_id>>, 200, "", {})
    /\ UNCHANGED <<users, devices, publicly_reportable, device_locations, locations,
                   device_groups, group_memberships, shared_devices, pending, now>>

-----------------------------------------------------------------------------
(* Concurrent requests.  A request that has passed the handler's checks    *)
(* waits in `pending` until its session commits; the store evaluates the   *)
(* unique constraint at the commit, against the rows committed by then.    *)

RequestIds == 1..MaxPending

FreeRequestIds == {rid \in RequestIds : ~\E r \in pending : r.rid = rid}

Pending(rid, op, user, args) == [rid |-> rid, op |-> op, user |-> user, args |-> args]

\* main.py add_device_to_group up to "# Add device to group"
begin_add_device_to_group(rid, user, group_id, device_id) ==
    /\ user \in Authenticated
    /\ rid \in FreeRequestIds
    /\ LET op(status, detail) ==
               HTTPException("add_device_to_group", user, <<group_id, device_id>>, status, detail)
       IN  IF ~GroupOwnedBy(user, group_id)
           THEN /\ resp' = op(404, "Group not found")
                /\ UNCHANGED pending
           ELSE IF ~\E d \in get_device(device_id) : d.user_id = user
           THEN /\ resp' = op(404, "Device not found or not owned by you")
                /\ UNCHANGED pending
           ELSE /\ pending' = pending \cup
                       {Pending(rid, "add_device_to_group", user, <<group_id, device_id>>)}
                /\ UNCHANGED resp
    /\ UNCHANGED <<store, now>>

\* (mutant) the insert on a table without the unique index
commit_add_device_to_group_unchecked(r) ==
    /\ r \in pending /\ r.op = "add_device_to_group"
    /\ NewId({m.membership_id : m \in group_memberships}) <= MaxMemberships
    /\ group_memberships' = crud_add_device_to_group(r.args[1], r.args[2])
    /\ resp' = Response("add_device_to_group", r.user, r.args, 200, "", {})
    /\ pending' = pending \ {r}
    /\ UNCHANGED <<users, devices, publicly_reportable, device_locations, locations,
                   device_groups, shared_devices, alerts, now>>

\* the try block of main.py add_device_to_group: crud.add_device_to_group
commit_add_device_to_group(r) ==
    /\ r \in pending /\ r.op = "add_device_to_group"
    /\ NewId({m.membership_id : m \in group_memberships}) <= MaxMemberships
    /\ IF ~group_device_uc(crud_add_device_to_group(r.args[1], r.args[2]))
       THEN /\ resp' = HTTPException("add_device_to_group", r.user, r.args, 400, "IntegrityError")
            /\ UNCHANGED group_memberships
       ELSE /\ group_memberships' = crud_add_device_to_group(r.args[1], r.args[2])
            /\ resp' = Response("add_device_to_group", r.user, r.args, 200, "", {})
    /\ pending' = pending \ {r}
    /\ UNCHANGED <<users, devices, publicly_reportable, device_locations, locations,
                   device_groups, shared_devices, alerts, now>>

\* main.py share_device up to "# Create sharing"
begin_share_device(rid, user, device_id, shared_with_email, permission_level, expires_at) ==
    /\ user \in Authenticated
    /\ rid \in FreeRequestIds
    /\ LET args == <<device_id, shared_with_email, permission_level, expires_at>>
           op(status, detail) == HTTPException("share_device", user, args, status, detail)
       IN  IF ~\E d \in get_device(device_id) : d.user_id = user
           THEN /\ resp' = op(404, "Device not found or not owned by you")
                /\ UNCHANGED pending
           ELSE IF get_user_by_email(shared_with_email) = {}
           THEN /\ resp' = op(404, "Target user not found")
                /\ UNCHANGED pending
           ELSE /\ pending' = pending \cup {Pending(rid, "share_device", user, args)}
                /\ UNCHANGED resp
    /\ UNCHANGED <<store, now>>

\* crud.share_device: db.add(share), db.commit()
commit_share_device(r) ==
    /\ r \in pending /\ r.op = "share_device"
    /\ NewId({x.share_id : x \in shared_devices}) <= MaxShares
    /\ \E t \in get_user_by_email(r.args[2]) :
        LET rows == crud_share_device(r.args[1], r.user, t.user_id, r.args[3], r.args[4])
        IN  IF ~device_shared_user_uc(rows)
            THEN /\ resp' = HTTPException("share_device", r.user, r.args, 500, "IntegrityError")
                 /\ UNCHANGED shared_devices
            ELSE /\ shared_devices' = rows
                 /\ resp' = Response("share_device", r.user, r.args, 200, "", rows \ shared_devices)
    /\ pending' = pending \ {r}
    /\ UNCHANGED <<users, devices, publicly_reportable, device_locations, locations,
                   device_groups, group_memberships, alerts, now>>

\* main.py create_user up to "return crud.create_user"
begin_create_user(rid, email) ==
    /\ rid \in FreeRequestIds
    /\ IF get_user_by_email(email) # {}
       THEN /\ resp' = HTTPException("create_user", 0, <<email>>, 400, "Email already registered")
            /\ UNCHANGED pending
       ELSE /\ pending' = pending \cup {Pending(rid, "create_user", 0, <<email>>)}
            /\ UNCHANGED resp
    /\ UNCHANGED <<store, now>>

\* routes/auth.py register up to "return create_user"
begin_register(rid, email) ==
    /\ rid \in FreeRequestIds
    /\ IF get_user_by_email(email) # {}
       THEN /\ resp' = HTTPException("register", 0, <<email>>, 400, "Email already registered")
            /\ UNCHANGED pending
       ELSE /\ pending' = pending \cup {Pending(rid, "register", 0, <<email>>)}
            /\ UNCHANGED resp
    /\ UNCHANGED <<store, now>>

\* crud.create_user: db.add(db_user), db.commit(); neither handler catches the
\* store's IntegrityError
commit_create_user(r) ==
    /\ r \in pending /\ r.op \in {"create_user", "register"}
    /\ LET rows == users \cup {[user_id |-> Cardinality(users) + 1, email |-> r.args[1]]}
       IN  IF ~users_email_uc(rows)
           THEN /\ resp' = HTTPException(r.op, 0, r.args, 500, "IntegrityError")
                /\ UNCHANGED users
           ELSE /\ users' = rows
                /\ resp' = Response(r.op, 0, r.args, 200, "", {})
    /\ pending' = pending \ {r}
    /\ UNCHANGED <<devices, publicly_reportable, device_locations, locations,
                   device_groups, group_memberships, shared_devices, alerts, now>>

InitRegistered ==
    /\ users = {[user_id |-> 1, email |-> "a@x"], [user_id |-> 2, email |-> "b@x"]}
    /\ devices = {}
    /\ publicly_reportable = {}
    /\ device_locations = <<>>
    /\ locations = <<>>
    /\ device_groups = {}
    /\ group_memberships = {}
    /\ shared_devices = {}
    /\ alerts = {}
    /\ pending = {}
    /\ now = 0
    /\ resp = NoRequest

-----------------------------------------------------------------------------
UserIds == 1..Cardinality(Emails)
GroupIds == 1..MaxGroups
ShareIds == 1..MaxShares
AlertIds == 1..MaxAlerts
GroupRefs == {{}} \cup {{g} : g \in GroupIds}

Next ==
    \/ Tick
    \/ \E email \in Emails : create_user(email)
    \/ \E email \in Emails : register(email)
    \/ \E user \in UserIds, device_id \in DeviceIds :
        \/ create_device(user, device_id)
        \/ read_device(user, device_id)
        \/ delete_device(user, device_id)
        \/ \E body \in DeviceUpdateBodies : update_device(user, device_id, body)
        \/ \E flag \in BOOLEAN : set_publicly_reportable(user, device_id, flag)
        \/ \E group_id \in GroupRefs, alert_type \in AlertTypes :
               create_alert(user, device_id, group_id, alert_type)
        \/ \E pos \in Positions : create_location(user, device_id, pos)
        \/ read_device_locations(user, device_id)
        \/ read_device_latest_location(user, device_id)
        \/ \E pos \in Positions : routes_create_location_endpoint(user, device_id, pos)
        \/ routes_get_device_locations(user, device_id)
        \/ routes_get_last_location(user, device_id)
        \/ \E email \in Emails, level \in PermissionLevels, expires_at \in ExpiryInputs :
               share_device(user, device_id, email, level, expires_at)
        \/ \E group_id \in GroupIds :
            \/ add_device_to_group(user, group_id, device_id)
            \/ remove_device_from_group(user, group_id, device_id)
            \/ routes_add_device_to_group_endpoint(user, group_id, device_id)
            \/ routes_remove_device_from_group(user, group_id, device_id)
    \/ \E user \in UserIds :
        \/ \E group_name \in GroupNames : create_group(user, group_name)
        \/ \E group_id \in GroupIds, group_name \in GroupNames :
            \/ update_group(user, group_id, group_name)
            \/ routes_update_group(user, group_id, group_name)
        \/ \E group_id \in GroupIds :
            \/ delete_group(user, group_id)
            \/ routes_delete_group(user, group_id)
        \/ \E group_id \in GroupIds : read_group(user, group_id)
        \/ \E share_id \in ShareIds : remove_device_sharing(user, share_id)
        \/ \E alert_id \in AlertIds : resolve_alert(user, alert_id)
    \/ \E rid \in RequestIds, user \in UserIds, device_id \in DeviceIds :
        \/ \E group_id \in GroupIds : begin_add_device_to_group(rid, user, group_id, device_id)
        \/ \E email \in Emails, level \in PermissionLevels, expires_at \in ExpiryInputs :
               begin_share_device(rid, user, device_id, email, level, expires_at)
    \/ \E r \in pending : commit_add_device_to_group(r)
    \/ \E r \in pending : commit_share_device(r)
    \/ \E rid \in RequestIds, email \in Emails :
        \/ begin_create_user(rid, email)
        \/ begin_register(rid, email)
    \/ \E r \in pending : commit_create_user(r)

Spec == Init /\ [][Next]_vars

-----------------------------------------------------------------------------
(* The sharing requests and the location reads they gate *)

\* the expiries a client asks for: none, or a time that is not in the past
NotYetExpired == {x \in ExpiryInputs : \A e \in x : e >= now}

NextShare ==
    \/ Tick
    \/ \E user \in UserIds, device_id \in DeviceIds :
        \/ create_device(user, device_id)
        \/ read_device_locations(user, device_id)
        \/ read_device_latest_location(user, device_id)
    \/ \E user \in UserIds, device_id \in ObservedDevices :
           \E email \in Emails, level \in PermissionLevels, expires_at \in NotYetExpired :
               share_device(user, device_id, email, level, expires_at)
    \/ \E user \in UserIds, share_id \in ShareIds : remove_device_sharing(user, share_id)

SpecShare == InitRegistered /\ [][NextShare]_vars

(* The location writes and the reads of the last known location *)

NextLocation ==
    \/ Tick
    \/ \E user \in UserIds, device_id \in ObservedDevices :
        \/ create_device(user, device_id)
        \/ \E flag \in BOOLEAN : set_publicly_reportable(user, device_id, flag)
        \/ \E pos \in Positions : create_location(user, device_id, pos)
        \/ \E pos \in Positions : routes_create_location_endpoint(user, device_id, pos)
        \/ read_device_latest_location(user, device_id)
        \/ routes_get_last_location(user, device_id)
        \/ share_device(user, device_id, "b@x", "full", {})

SpecLocation == InitRegistered /\ [][NextLocation]_vars

(* The requests that name a device *)

NextDevice ==
    \/ \E user \in UserIds, device_id \in ObservedDevices :
        \/ create_device(user, device_id)
        \/ \E body \in DeviceUpdateBodies : update_device(user, device_id, body)
        \/ share_device(user, device_id, "b@x", "full", {})
        \/ add_device_to_group(user, 1, device_id)
        \/ routes_remove_device_from_group(user, 1, device_id)
        \/ create_location(user, device_id, "p")
        \/ routes_create_location_endpoint(user, device_id, "p")
        \/ create_alert(user, device_id, {}, "proximity")
    \/ \E user \in UserIds :
        \/ create_group(user, "g")
        \/ remove_device_sharing(user, 1)
        \/ resolve_alert(user, 1)

SpecDevice == InitRegistered /\ [][NextDevice]_vars

(* The requests whose target may be someone else's or missing *)

NextExistence ==
    \/ \E user \in UserIds, device_id \in ObservedDevices :
        \/ create_device(user, device_id)
        \/ \E email \in Emails : share_device(user, device_id, email, "view", {})
    \/ \E user \in UserIds :
        \/ create_group(user, "g")
        \/ \E group_id \in GroupIds :
            \/ read_group(user, group_id)
            \/ \E group_name \in GroupNames : update_group(user, group_id, group_name)
            \/ delete_group(user, group_id)
        \/ \E share_id \in ShareIds : remove_device_sharing(user, share_id)

SpecExistence == InitRegistered /\ [][NextExistence]_vars

(* The sharing requests with any string as the permission level:           *)
(* SharedDeviceBase declares permission_level: str, SharedDevice a String  *)
(* column                                                                  *)

RequestedLevels == PermissionLevels \cup {"admin", ""}

NextLevels ==
    \/ \E user \in UserIds, device_id \in DeviceIds : create_device(user, device_id)
    \/ \E user \in UserIds, device_id \in DeviceIds, email \in Emails,
          level \in RequestedLevels :
           share_device(user, device_id, email, level, {})
    \/ \E user \in UserIds, share_id \in ShareIds : remove_device_sharing(user, share_id)

SpecLevels == InitRegistered /\ [][NextLevels]_vars

(* Interleaved add-device-to-group and create-share requests *)

NextConcurrent ==
    \/ \E user \in UserIds, device_id \in ObservedDevices : create_device(user, device_id)
    \/ \E user \in UserIds : create_group(user, "g")
    \/ \E rid \in RequestIds, user \in UserIds, device_id \in ObservedDevices :
        \/ \E group_id \in GroupIds : begin_add_device_to_group(rid, user, group_id, device_id)
        \/ \E level \in {"view", "full"} :
               begin_share_device(rid, user, device_id, "b@x", level, {})
    \/ \E r \in pending : commit_add_device_to_group(r)
    \/ \E r \in pending : commit_share_device(r)

SpecConcurrent == InitRegistered /\ [][NextConcurrent]_vars

(* Registrations, one at a time and interleaved *)

NextRegister ==
    \/ \E email \in Emails :
        \/ create_user(email)
        \/ register(email)
    \/ \E rid \in RequestIds, email \in Emails :
        \/ begin_create_user(rid, email)
        \/ begin_register(rid, email)
    \/ \E r \in pending : commit_create_user(r)

SpecRegister == Init /\ [][NextRegister]_vars

(* The requests on a device's record, by its owner and by the holders of   *)
(* its shares                                                              *)

NextRecord ==
    \/ Tick
    \/ \E user \in UserIds, device_id \in ObservedDevices :
        \/ create_device(user, device_id)
        \/ read_device(user, device_id)
        \/ \E body \in DeviceUpdateBodies : update_device(user, device_id, body)
        \/ delete_device(user, device_id)
        \/ \E level \in PermissionLevels, expires_at \in NotYetExpired :
               share_device(user, device_id, "b@x", level, expires_at)
    \/ \E user \in UserIds, share_id \in ShareIds : remove_device_sharing(user, share_id)

SpecRecord == InitRegistered /\ [][NextRecord]_vars

(* The alert requests *)

NextAlert ==
    \/ \E user \in UserIds, device_id \in ObservedDevices :
        \/ create_device(user, device_id)
        \/ share_device(user, device_id, "b@x", "full", {})
        \/ \E group_id \in GroupRefs, alert_type \in AlertTypes :
               create_alert(user, device_id, group_id, alert_type)
    \/ \E user \in UserIds :
        \/ \E group_name \in {"g"} : create_group(user, group_name)
        \/ \E alert_id \in AlertIds : resolve_alert(user, alert_id)

SpecAlert == InitRegistered /\ [][NextAlert]_vars

(* The group requests *)

NextGroup ==
    \/ \E user \in UserIds, device_id \in DeviceIds :
        \/ create_device(user, device_id)
        \/ \E group_id \in GroupIds :
            \/ add_device_to_group(user, group_id, device_id)
            \/ remove_device_from_group(user, group_id, device_id)
            \/ routes_add_device_to_group_endpoint(user, group_id, device_id)
            \/ routes_remove_device_from_group(user, group_id, device_id)
    \/ \E user \in UserIds :
        \/ \E group_name \in GroupNames : create_group(user, group_name)
        \/ \E group_id \in GroupIds, group_name \in GroupNames :
            \/ update_group(user, group_id, group_name)
            \/ routes_update_group(user, group_id, group_name)
        \/ \E group_id \in GroupIds :
            \/ delete_group(user, group_id)
            \/ routes_delete_group(user, group_id)

SpecGroup == InitRegistered /\ [][NextGroup]_vars

-----------------------------------------------------------------------------
(* Vocabulary of the properties *)

\* the total order view < locate < full
Rank(level) == CASE level = "view" -> 1 [] level = "locate" -> 2 [] level = "full" -> 3

\* expires_at is in the past at time t
ExpiredAt(share, t) == \E e \in share.expires_at : e < t

OwnerOf(device_id) == (CHOOSE d \in devices : d.device_id = device_id).user_id

Exists(device_id) == \E d \in devices : d.device_id = device_id

\* an active share of the device from its owner to the user, of at least the level
ActiveShare(device_id, user, level, t) ==
    \E s \in shared_devices :
        /\ s.device_id = device_id /\ s.shared_with_id = user
        /\ s.owner_id = OwnerOf(device_id)
        /\ ~ExpiredAt(s, t)
        /\ Rank(s.permission_level) >= Rank(level)

\* a Conflict the caller is told of: a client error the handler raises
ConflictStatus == {400, 409}

LocationReads == {"read_device_locations", "read_device_latest_location"}

\* the last request was a location read of an existing device
ReadServed == resp.op \in LocationReads /\ Exists(resp.args[1])

\* a served read is Allowed unless it is answered 403
ReadAllowed == resp.status # 403

-----------------------------------------------------------------------------
(* C1: a read of a device's locations (history or latest) by user U at     *)
(* required level view is Allowed if and only if U owns the device or an   *)
(* active (non-expired) share of the device from its owner to U with level *)
(* at least view exists.                                                   *)
C1_ReadAllowedIffOwnerOrActiveShare ==
    ReadServed =>
        (ReadAllowed <=> \/ OwnerOf(resp.args[1]) = resp.user
                         \/ ActiveShare(resp.args[1], resp.user, "view", resp.at))

(* C2: device access for a non-owner compares the share's level with the   *)
(* required level by the total order view < locate < full: with a share of *)
(* level L, access at required level R is Allowed exactly when L >= R (a   *)
(* view share is Allowed at view and Denied at full).                      *)
C2_AccessComparesShareLevel ==
    \A d \in devices, u \in Authenticated, s \in shared_devices, required \in PermissionLevels :
        (d.user_id # u /\ s.device_id = d.device_id /\ s.shared_with_id = u
            /\ ~ExpiredAt(s, now))
        => (authorize_device_access(u, d, required) = "Allowed"
                <=> Rank(s.permission_level) >= Rank(required))

(* C3: a share whose expires_at is in the past at the time of the access   *)
(* behaves as no share: the recipient's read is Denied, although the row   *)
(* is still stored.                                                        *)
C3_ExpiredShareIsNoShare ==
    (/\ ReadServed
     /\ OwnerOf(resp.args[1]) # resp.user
     /\ \A s \in check_device_shared_with_user(resp.args[1], resp.user) : ExpiredAt(s, resp.at))
    => resp.status = 403

\* the share rows of the pair a create-share request names
SharesOfRequest ==
    {s \in shared_devices :
        /\ s.device_id = resp.args[1]
        /\ \E t \in get_user_by_email(resp.args[2]) : s.shared_with_id = t.user_id}

(* C4: in every reachable state there is at most one share row per         *)
(* (device, recipient) pair, and a create-share request by the owner,      *)
(* whether it is the first for the pair or a repetition, leaves exactly    *)
(* one share row for that pair.                                            *)
C4_OneShareRowPerPair ==
    /\ \A s1 \in shared_devices, s2 \in shared_devices :
           (s1.device_id = s2.device_id /\ s1.shared_with_id = s2.shared_with_id)
           => s1.share_id = s2.share_id
    /\ (resp.op = "share_device" /\ resp.status \in {200, 500})
       => Cardinality(SharesOfRequest) = 1

\* the create-share request was run a second time for a pair, and one row is stored
C4_Witness ==
    /\ resp.op = "share_device" /\ resp.status = 500
    /\ Cardinality(SharesOfRequest) = 1

(* C5: a create-share request by the owner for a pair that already has a   *)
(* share row either updates the row's permission level and expiry to the   *)
(* requested values or is rejected with a Conflict error; it ends in       *)
(* no other failure.                                                       *)
C5_CollidingShareUpdatesOrConflicts ==
    [][\A user \in UserIds, device_id \in DeviceIds, email \in Emails,
          level \in PermissionLevels, expires_at \in ExpiryInputs :
        (/\ share_device(user, device_id, email, level, expires_at)
         /\ Exists(device_id) /\ OwnerOf(device_id) = user
         /\ \E t \in get_user_by_email(email) :
                check_device_shared_with_user(device_id, t.user_id) # {})
        => \/ resp'.status \in ConflictStatus
           \/ /\ resp'.status = 200
              /\ \E t \in get_user_by_email(email) :
                   \A s \in {x \in shared_devices' :
                               x.device_id = device_id /\ x.shared_with_id = t.user_id} :
                       s.permission_level = level /\ s.expires_at = expires_at]_vars

-----------------------------------------------------------------------------
-----------------------------------------------------------------------------
\* a location write by a user who does not own the device, which exists and
\* is not publicly reportable
ForeignWrite(user, device_id) ==
    /\ Exists(device_id) /\ OwnerOf(device_id) # user
    /\ device_id \notin publicly_reportable

C8_PublicDeviceAcceptsAnyUser ==
    [][\A user \in UserIds, device_id \in DeviceIds, pos \in Positions :
        (/\ \/ create_location(user, device_id, pos)
            \/ routes_create_location_endpoint(user, device_id, pos)
         /\ Exists(device_id) /\ device_id \in publicly_reportable)
        => /\ resp'.status = 200
           /\ Cardinality(RowsOf(device_locations', device_id))
                + Cardinality(RowsOf(locations', device_id))
              = Cardinality(RowsOf(device_locations, device_id))
                + Cardinality(RowsOf(locations, device_id)) + 1]_vars

\* a fix, whatever the table that stores it
Fix(row) == [device_id |-> row.device_id, pos |-> row.pos, timestamp |-> row.timestamp]

StoredFixes(device_id) ==
    {Fix(r) : r \in RowsOf(device_locations, device_id)}
        \cup {Fix(r) : r \in RowsOf(locations, device_id)}

(* C9: after an accepted location write for a device, the device's last    *)
(* known location is the fix just inserted, and no stored fix of the       *)
(* device has a greater timestamp.                                         *)
C9_LatestIsLastInserted ==
    (resp.op \in {"create_location", "routes_create_location_endpoint"} /\ resp.status = 200)
    => /\ \E l \in get_device_latest_location(resp.args[1]), w \in resp.body : Fix(l) = Fix(w)
       /\ \A l \in get_device_latest_location(resp.args[1]), f \in StoredFixes(resp.args[1]) :
              f.timestamp <= l.timestamp

-----------------------------------------------------------------------------
(* C10: every operation that mutates a group (update, delete, add a        *)
(* device, remove a device) succeeds only when the requesting user is the  *)
(* group's owner: a step that changes a group's row or its membership rows *)
(* is a request of the group's owner.                                      *)
C10_OnlyOwnerMutatesGroup ==
    [][\A g \in device_groups :
        (\/ g \notin device_groups'
         \/ {m \in group_memberships' : m.group_id = g.group_id}
              # {m \in group_memberships : m.group_id = g.group_id})
        => resp'.user = g.user_id]_vars

-----------------------------------------------------------------------------
(* C11: in every reachable state every membership row (group G, device D)  *)
(* has owner(G) = owner(D); a step that adds a membership row is a request *)
(* of the user who owns both the group and the device, so the holder of a  *)
(* full share on the device cannot add it to a group.                      *)
C11_MembershipWithinOneOwner ==
    /\ [](\A m \in group_memberships :
             \A g \in get_device_group(m.group_id), d \in get_device(m.device_id) :
                 g.user_id = d.user_id)
    /\ [][\A m \in group_memberships' \ group_memberships :
            /\ GroupOwnedBy(resp'.user, m.group_id)
            /\ Exists(m.device_id) /\ OwnerOf(m.device_id) = resp'.user]_vars

-----------------------------------------------------------------------------
\* the device the alert is about is owned by the user
OwnsAlertDevice(user, alert_id) ==
    \E a \in get_alert(alert_id) : Exists(a.device_id) /\ OwnerOf(a.device_id) = user

(* C12: a resolve request for an existing alert is Allowed (it is carried  *)
(* out and answered 200) if and only if the requester owns the alert's     *)
(* device; a requester who does not is answered 403 and no alert changes,  *)
(* whether or not they own the alert's group or hold a share on the        *)
(* device.                                                                 *)
C12_ResolveOnlyByDeviceOwner ==
    [][\A user \in UserIds, alert_id \in AlertIds :
        (/\ get_alert(alert_id) # {}
         /\ resp'.op = "resolve_alert"
         /\ resolve_alert(user, alert_id))
        => /\ (resp'.status = 200) <=> OwnsAlertDevice(user, alert_id)
           /\ ~OwnsAlertDevice(user, alert_id) => (resp'.status = 403 /\ UNCHANGED alerts)]_vars

\* the owner of the alert's group, holding a full share on the alert's device,
\* has been refused
C12_Witness ==
    /\ resp.op = "resolve_alert" /\ resp.status = 403
    /\ \E a \in get_alert(resp.args[1]) :
           /\ \E g \in a.group_id : GroupOwnedBy(resp.user, g)
           /\ \E s \in check_device_shared_with_user(a.device_id, resp.user) :
                  s.permission_level = "full"

(* C13: a successful resolve of an alert sets that alert's resolved state  *)
(* to true and its resolution timestamp to the time of the request, and    *)
(* changes nothing else: no alert row is deleted, every other alert and    *)
(* every other field of the resolved alert is unchanged.                   *)
C13_ResolveSetsStateAndTime ==
    [][\A user \in UserIds, alert_id \in AlertIds :
        (resp'.op = "resolve_alert" /\ resolve_alert(user, alert_id) /\ resp'.status = 200)
        => /\ alerts' = {IF a.alert_id = alert_id
                         THEN [a EXCEPT !.is_resolved = TRUE, !.resolved_at = {now}]
                         ELSE a : a \in alerts}
           /\ UNCHANGED <<users, devices, device_locations, locations, device_groups,
                          group_memberships, shared_devices>>]_vars

-----------------------------------------------------------------------------
(* C14: a create-share request for a device the requester does not own     *)
(* (missing, or owned by someone else) is rejected with 404 and creates no *)
(* share row, whatever the recipient email and permission level; every     *)
(* share row that appears was created by a request of the device's owner   *)
(* and names that user as its owner.                                       *)
C14_ShareOnlyByDeviceOwner ==
    /\ [][\A user \in UserIds, device_id \in ObservedDevices :
            (/\ ~(Exists(device_id) /\ OwnerOf(device_id) = user)
             /\ resp'.op = "share_device" /\ resp'.user = user
             /\ \E email \in Emails, level \in PermissionLevels,
                   expires_at \in ExpiryInputs :
                    /\ resp'.args = <<device_id, email, level, expires_at>>
                    /\ share_device(user, device_id, email, level, expires_at))
            => (resp'.status = 404 /\ UNCHANGED shared_devices)]_vars
    /\ [][\A s \in shared_devices' \ shared_devices :
            /\ resp'.op = "share_device" /\ resp'.user = s.owner_id
            /\ Exists(s.device_id) /\ OwnerOf(s.device_id) = s.owner_id]_vars

\* a user has asked to share a device that exists and is someone else's
C14_Witness ==
    /\ resp.op = "share_device" /\ resp.status = 404
    /\ Exists(resp.args[1]) /\ OwnerOf(resp.args[1]) # resp.user

(* C15: a share row disappears only in a delete-share request for that     *)
(* share made by the user who owns it, who is the owner of the device; a   *)
(* delete-share request from any other user, the share's recipient         *)
(* included, leaves the share rows as they are.                            *)
C15_ShareDeletedOnlyByOwner ==
    /\ [][\A s \in shared_devices \ shared_devices' :
            /\ resp'.op = "remove_device_sharing" /\ resp'.args = <<s.share_id>>
            /\ resp'.user = s.owner_id /\ OwnerOf(s.device_id) = s.owner_id]_vars
    /\ [][\A user \in UserIds, share_id \in ShareIds :
            (/\ ~\E s \in get_device_share(share_id) : s.owner_id = user
             /\ resp'.op = "remove_device_sharing" /\ resp'.user = user
             /\ resp'.args = <<share_id>>
             /\ remove_device_sharing(user, share_id))
            => UNCHANGED shared_devices]_vars

\* the recipient of a share has asked to delete it and the row is still there
C15_Witness ==
    /\ resp.op = "remove_device_sharing" /\ resp.status = 404
    /\ \E s \in get_device_share(resp.args[1]) :
           s.shared_with_id = resp.user /\ s.owner_id # resp.user

-----------------------------------------------------------------------------
(* C16: in every reachable state a device id names one device row with one *)
(* owner; a device row appears only in a create-device request and is      *)
(* owned by the requester, and no step (device update, share creation or   *)
(* deletion, membership change, location write, alert creation or          *)
(* resolution) changes the owner of a device that exists.                  *)
C16_OwnerNeverChanges ==
    /\ [](\A d1 \in devices, d2 \in devices :
             d1.device_id = d2.device_id => d1.user_id = d2.user_id)
    /\ [][\A d \in devices' :
            IF Exists(d.device_id)
            THEN d.user_id = OwnerOf(d.device_id)
            ELSE resp'.op = "create_device" /\ d.user_id = resp'.user]_vars

\* the owner's update has renamed the device, which is still theirs, after a
\* share, a membership, an alert and a location have been created for it
C16_Witness ==
    /\ resp.op = "update_device" /\ resp.status = 200
    /\ \E d \in get_device(resp.args[1]) : d.device_name = "m" /\ d.user_id = resp.user
    /\ shared_devices # {} /\ group_memberships # {} /\ alerts # {}
    /\ Len(device_locations) + Len(locations) > 0

-----------------------------------------------------------------------------
\* the membership rows of the (group, device) pair
MembershipsOf(group_id, device_id) ==
    {m \in group_memberships : m.group_id = group_id /\ m.device_id = device_id}

(* C17: a remove-device request by the group's owner tells the caller      *)
(* whether a membership row existed: when the device was a member its row  *)
(* is deleted, no other row changes and the request succeeds ("removed");  *)
(* when it was not a member nothing changes and the answer is 404 ("was    *)
(* not a member").                                                         *)
C17_RemoveReportsMembership ==
    [][\A user \in UserIds, group_id \in GroupIds, device_id \in DeviceIds :
        (/\ GroupOwnedBy(user, group_id)
         /\ \/ remove_device_from_group(user, group_id, device_id)
            \/ routes_remove_device_from_group(user, group_id, device_id))
        => IF MembershipsOf(group_id, device_id) # {}
           THEN /\ group_memberships' = group_memberships \ MembershipsOf(group_id, device_id)
                /\ resp'.status \in {200, 204}
           ELSE /\ UNCHANGED group_memberships
                /\ resp'.status = 404]_vars

-----------------------------------------------------------------------------
\* the answer that does not tell a missing target from someone else's
NotFoundAnswer(detail) ==
    /\ resp'.status = 404 /\ resp'.detail = detail /\ resp'.body = {}
    /\ UNCHANGED store

(* C18: for group read, update and delete, share creation and share        *)
(* deletion, a requester who does not own the target gets one and the same *)
(* 404 answer, and nothing changes, whether the group, device or share     *)
(* does not exist or exists and is someone else's: the answer is a         *)
(* function of the request alone, so two states that differ only in the    *)
(* existence of the target give the same answer.                           *)
C18_NotOwnedLooksMissing ==
    [][/\ \A user \in UserIds, group_id \in GroupIds :
            (/\ ~GroupOwnedBy(user, group_id)
             /\ \/ read_group(user, group_id)
                \/ \E group_name \in GroupNames : update_group(user, group_id, group_name)
                \/ delete_group(user, group_id))
            => NotFoundAnswer("Group not found")
       /\ \A user \in UserIds, device_id \in ObservedDevices, email \in Emails :
            (/\ ~(Exists(device_id) /\ OwnerOf(device_id) = user)
             /\ share_device(user, device_id, email, "view", {}))
            => NotFoundAnswer("Device not found or not owned by you")
       /\ \A user \in UserIds, share_id \in ShareIds :
            (/\ ~\E s \in get_device_share(share_id) : s.owner_id = user
             /\ remove_device_sharing(user, share_id))
            => NotFoundAnswer("Share not found or not owned by you")]_vars

\* a user has asked to update a group that exists and is someone else's
C18_Witness ==
    /\ resp.op = "update_group" /\ resp.status = 404
    /\ \E g \in get_device_group(resp.args[1]) : g.user_id # resp.user

-----------------------------------------------------------------------------
(* C19: in every reachable state every stored share has a permission level *)
(* that is one of view, locate, full; a create-share request carrying any  *)
(* other permission level is rejected and creates no share row.            *)
C19_StoredLevelsAreEnumerated ==
    /\ \A s \in shared_devices : s.permission_level \in PermissionLevels
    /\ (resp.op = "share_device" /\ resp.args[3] \notin PermissionLevels)
       => (resp.status >= 400 /\ resp.body = {})

-----------------------------------------------------------------------------
(* C20: under every interleaving of concurrent add-device-to-group         *)
(* requests for one (group, device) pair and of concurrent create-share    *)
(* requests for one (device, recipient) pair, no reachable state holds two *)
(* membership rows or two share rows for the pair: the insert that finds   *)
(* the pair present at its commit is refused and leaves the table as it    *)
(* was, however many requests had passed their checks before.              *)
C20_UniqueUnderInterleaving ==
    /\ [](/\ \A m1 \in group_memberships, m2 \in group_memberships :
               (m1.group_id = m2.group_id /\ m1.device_id = m2.device_id)
               => m1.membership_id = m2.membership_id
           /\ \A s1 \in shared_devices, s2 \in shared_devices :
               (s1.device_id = s2.device_id /\ s1.shared_with_id = s2.shared_with_id)
               => s1.share_id = s2.share_id)
    /\ [][\A r \in pending :
            /\ (/\ r.op = "add_device_to_group"
                /\ MembershipsOf(r.args[1], r.args[2]) # {}
                /\ commit_add_device_to_group(r))
               => (resp'.status >= 400 /\ UNCHANGED group_memberships)
            /\ (/\ r.op = "share_device"
                /\ \E s \in shared_devices, t \in get_user_by_email(r.args[2]) :
                       s.device_id = r.args[1] /\ s.shared_with_id = t.user_id
                /\ commit_share_device(r))
               => (resp'.status >= 400 /\ UNCHANGED shared_devices)]_vars

\* an add request that had passed its checks has been refused at its commit,
\* the pair being present by then, while a share request that has passed its
\* checks waits to commit a pair that is present as well
C20_Witness ==
    /\ resp.op = "add_device_to_group" /\ resp.status = 400
    /\ MembershipsOf(resp.args[1], resp.args[2]) # {}
    /\ \E r \in pending :
           /\ r.op = "share_device"
           /\ \E s \in shared_devices, t \in get_user_by_email(r.args[2]) :
                  s.device_id = r.args[1] /\ s.shared_with_id = t.user_id

-----------------------------------------------------------------------------
\* the share rows of the (device, recipient) pair in the state after the step
SharesOfPairAfter(device_id, user) ==
    {s \in shared_devices' : s.device_id = device_id /\ s.shared_with_id = user}

(* C21: after the owner revokes (deletes) an active share of device D to   *)
(* another user B, the share row no longer exists, and every later read of *)
(* D's locations by B is Denied (403) until a new share of D to B is       *)
(* created.  Stated step by step: an accepted delete-share request leaves  *)
(* no row of the share's pair; a row of a pair appears only in an accepted *)
(* create-share request naming that pair's recipient; and every read of a  *)
(* device by a user who is not its owner, served while no row of the pair  *)
(* is stored, is answered 403.                                             *)
C21_RevokedShareDeniesReads ==
    /\ [][\A s \in shared_devices :
            (/\ resp'.op = "remove_device_sharing" /\ resp'.status = 200
             /\ resp'.args = <<s.share_id>>
             /\ resp' # resp)
            => (/\ s \notin shared_devices'
                /\ SharesOfPairAfter(s.device_id, s.shared_with_id) = {})]_vars
    /\ [][\A s \in shared_devices' \ shared_devices :
            /\ resp'.op = "share_device" /\ resp'.status = 200
            /\ resp'.args[1] = s.device_id
            /\ \E t \in get_user_by_email(resp'.args[2]) : t.user_id = s.shared_with_id]_vars
    /\ [][(/\ resp'.op \in LocationReads
           /\ resp' # resp
           /\ Exists(resp'.args[1])
           /\ OwnerOf(resp'.args[1]) # resp'.user
           /\ SharesOfPairAfter(resp'.args[1], resp'.user) = {})
          => resp'.status = 403]_vars

\* the recipient of a revoked share has read the device and was denied: the
\* stored share 2 goes to the device's owner, so share 1, made before it and
\* for another recipient, went to the reader and has been deleted
C21_Witness ==
    /\ resp.op \in LocationReads /\ resp.status = 403
    /\ check_device_shared_with_user(resp.args[1], resp.user) = {}
    /\ get_device_share(1) = {}
    /\ \E s \in get_device_share(2) :
           s.device_id = resp.args[1] /\ s.shared_with_id = s.owner_id

-----------------------------------------------------------------------------
(* C22: in every reachable state no two users have the same email; a       *)
(* registration with an email that already belongs to a user is rejected   *)
(* and creates no user, also when registrations with the same email run    *)
(* concurrently and each passes the email lookup before any inserts: the   *)
(* one that finds the email stored at its commit is refused.               *)
C22_EmailsAreUnique ==
    /\ [](\A u1 \in users, u2 \in users : u1.email = u2.email => u1.user_id = u2.user_id)
    /\ [][\A email \in Emails :
            (/\ get_user_by_email(email) # {}
             /\ resp'.args = <<email>>
             /\ (create_user(email) \/ register(email)))
            => (resp'.status = 400 /\ UNCHANGED users)]_vars
    /\ [][\A r \in pending :
            (/\ get_user_by_email(r.args[1]) # {}
             /\ commit_create_user(r))
            => (resp'.status >= 400 /\ UNCHANGED users)]_vars

\* two registrations with one email had both passed the lookup; the second to
\* commit has been refused and the email has one user
C22_Witness ==
    /\ resp.op \in {"create_user", "register"} /\ resp.status = 500
    /\ Cardinality(get_user_by_email(resp.args[1])) = 1

-----------------------------------------------------------------------------
\* the statuses of the error responses the handlers raise
ErrorStatuses == {400, 401, 403, 404}

(* C23: every request that is answered with an error response (400, 401,   *)
(* 403 or 404) leaves the stored users, devices, locations, groups,        *)
(* memberships, alerts and shares exactly as they were before the request; *)
(* in particular a remove-device-from-group request answered 404 "Device   *)
(* not found in group" has deleted no membership row.                      *)
C23_ErrorLeavesStoreUnchanged ==
    [][resp'.status \in ErrorStatuses => UNCHANGED store]_vars

-----------------------------------------------------------------------------
(* C24: in every reachable state every membership row refers to a group    *)
(* that exists: a group's deletion by its owner removes the group's        *)
(* membership rows with it, so no membership of a deleted group remains.   *)
C24_MembershipsReferToGroups ==
    \A m \in group_memberships : get_device_group(m.group_id) # {}

-----------------------------------------------------------------------------
\* the requests on a device's record
RecordRequests == {"read_device", "update_device", "delete_device"}

(* C25: reading a device's record, updating a device and deleting a device *)
(* succeed only for the device's owner: any other user, the holder of an   *)
(* active share of any level (full included) among them, gets the same 404 *)
(* "Device not found" as for a device that does not exist, and the device  *)
(* is unchanged.                                                           *)
C25_RecordOnlyForOwner ==
    [][\A user \in UserIds, device_id \in ObservedDevices :
        (/\ ~(Exists(device_id) /\ OwnerOf(device_id) = user)
         /\ resp'.op \in RecordRequests /\ resp'.user = user
         /\ \/ read_device(user, device_id)
            \/ \E body \in DeviceUpdateBodies : update_device(user, device_id, body)
            \/ delete_device(user, device_id))
        => (/\ resp'.status = 404 /\ resp'.detail = "Device not found" /\ resp'.body = {}
            /\ UNCHANGED devices)]_vars

\* the holder of an active full share of a device has asked for its record
\* and got 404
C25_Witness ==
    /\ resp.op = "read_device" /\ resp.status = 404
    /\ Exists(resp.args[1]) /\ OwnerOf(resp.args[1]) # resp.user
    /\ ActiveShare(resp.args[1], resp.user, "full", resp.at)

====
